---------------------------- MODULE Spec2Model ----------------------------
(***************************************************************************)
(* A model of the line editor of LSH (src/main.c): lsh_read_line, the raw  *)
(* mode it puts the terminal in, its key handling and redraw, and the tab  *)
(* completion of find_matching_commands.                                   *)
(*                                                                         *)
(* Bytes are integers, strings are sequences of bytes.  The line buffer is *)
(* modelled by its live part buffer[0..position-1] (a sequence of length   *)
(* position): the code never reads a byte at or past position before it    *)
(* has written it.                                                         *)
(***************************************************************************)
EXTENDS Integers, Sequences, FiniteSets, TLC

(***************************************************************************)
(* Bytes the code names.                                                   *)
(***************************************************************************)
EOF == -1
NUL == 0
BEL == 7
BS == 8
TAB == 9
NL == 10
CR == 13
ESC == 27
SP == 32
DOT == 46
SLASH == 47
COLON == 58
CH_C == 67
CH_D == 68
LBRACKET == 91
LC_c == 99
LC_d == 100
LC_e == 101
LC_h == 104
LC_i == 105
LC_l == 108
LC_p == 112
LC_t == 116
LC_x == 120
DEL == 127

(***************************************************************************)
(* Output that is not a single byte: the prompt and the two cursor         *)
(* movement sequences the code prints.                                     *)
(***************************************************************************)
OUT_PROMPT == -2
OUT_RIGHT == -3
OUT_LEFT == -4
\* the columns "❯ " takes on the terminal (the colour codes take none)
PromptWidth == 2

(***************************************************************************)
(* Bounds of the model.  LSH_RL_BUFSIZE is 1024 in the source              *)
(* (src/main.c:326); the model keeps the allocation step small so that     *)
(* growing the buffer, and the bounded copy of a completion, are reached   *)
(* by lines of a few bytes.  MaxLine bounds the bytes a user types into    *)
(* one line.                                                               *)
(***************************************************************************)
LSH_RL_BUFSIZE == 3
MaxLine == 4
\* the regular files of the large directory of PATH
BigDirSize == 100

\* result.matches = malloc(100 * sizeof(char*)), and the loops' count < 100
MATCH_CAP == 100

\* the bytes a user types as text
Alphabet == {NUL, SP, SLASH, LC_c, LC_d}
\* the bytes a user types to leave the shell
ExitKeys == {LC_e, LC_x, LC_i, LC_t}
\* the bytes that may follow ESC, and ESC [
EscBytes == {LC_c, TAB, NL, ESC, CH_C, CH_D, LBRACKET, DEL}

(***************************************************************************)
(* C strings.                                                              *)
(***************************************************************************)
Take(s, n) == SubSeq(s, 1, IF n < Len(s) THEN n ELSE Len(s))
Drop(s, n) == SubSeq(s, n + 1, Len(s))

\* strlen / the string a char* denotes: the bytes before the first NUL
CStr(s) ==
  LET nuls == {i \in 1..Len(s) : s[i] = NUL}
  IN  IF nuls = {} THEN s
      ELSE SubSeq(s, 1, (CHOOSE i \in nuls : \A j \in nuls : i <= j) - 1)

\* strncmp(s, p, strlen(p)) == 0
StartsWith(s, p) == Len(p) <= Len(s) /\ SubSeq(s, 1, Len(p)) = p

\* strrchr(s, ch) as a 1-based index, 0 when ch does not occur
StrRChr(s, ch) ==
  LET hits == {i \in 1..Len(s) : s[i] = ch}
  IN  IF hits = {} THEN 0 ELSE CHOOSE i \in hits : \A j \in hits : j <= i

\* snprintf(match, size, ...): at most size - 1 bytes of the formatted text
Snprintf(size, text) == Take(text, size - 1)

\* strncpy(buffer, src, n); buffer[n] = '\0': the string left in buffer
Strncpy(src, n) == Take(src, n)

(***************************************************************************)
(* The environment: the directories opendir can open, each with the        *)
(* entries readdir yields in order (name, d_type == DT_DIR, and whether    *)
(* the calling user may execute the entry), and the value of PATH.  The    *)
(* current directory holds a directory "d", a regular file "cd" and a      *)
(* directory "cc"; PATH is "/d:/c".                                        *)
(***************************************************************************)
Entry(n, d, x) == [name |-> n, is_dir |-> d, exec |-> x]

DotEntries == << Entry(<<DOT>>, TRUE, TRUE), Entry(<<DOT, DOT>>, TRUE, TRUE) >>

FS ==
  LET c  == <<LC_c>>
      d  == <<LC_d>>
      cc == <<LC_c, LC_c>>
      cd == <<LC_c, LC_d>>
      dd == <<LC_d, LC_d>>
  IN  [ p \in { <<DOT>>, <<SLASH>>, d, cc, <<LC_d, SLASH, LC_c>>,
                <<SLASH, LC_d>>, <<SLASH, LC_c>>, <<SLASH, LC_c, LC_d>> } |->
        CASE p = <<DOT>> ->
               DotEntries \o << Entry(d, TRUE, TRUE), Entry(cd, FALSE, FALSE),
                                Entry(cc, TRUE, TRUE) >>
          [] p = <<SLASH>> ->
               DotEntries \o << Entry(d, TRUE, TRUE), Entry(c, TRUE, TRUE),
                                Entry(cd, TRUE, TRUE) >>
          [] p = d ->
               DotEntries \o << Entry(c, TRUE, TRUE), Entry(d, FALSE, FALSE) >>
          [] p = <<SLASH, LC_d>> ->
               DotEntries \o << Entry(cc, FALSE, TRUE), Entry(cd, FALSE, FALSE) >>
          [] p = <<SLASH, LC_c>> ->
               DotEntries \o << Entry(cc, FALSE, FALSE), Entry(dd, FALSE, TRUE) >>
          [] OTHER -> DotEntries ]

EnvPATH == <<SLASH, LC_d, COLON, SLASH, LC_c>>

\* the same environment with BigDirSize more regular files in /c, named "c"
\* and one byte above 127
BigDir == [k \in 1..BigDirSize |-> Entry(<<LC_c, DEL + k>>, FALSE, TRUE)]

BigFS == [FS EXCEPT ![<<SLASH, LC_c>>] = @ \o BigDir]

VARIABLE big_env   \* this run has the large directory in PATH

\* the directories of the environment of this run
fs == IF big_env THEN BigFS ELSE FS

\* the path a kernel resolves: runs of '/' are one '/', a trailing '/' is dropped
RECURSIVE Squeeze(_)
Squeeze(p) ==
  IF Len(p) < 2 THEN p
  ELSE IF p[1] = SLASH /\ p[2] = SLASH THEN Squeeze(Tail(p))
  ELSE <<p[1]>> \o Squeeze(Tail(p))

Normalize(p) ==
  LET q == Squeeze(p)
  IN  IF Len(q) > 1 /\ q[Len(q)] = SLASH THEN SubSeq(q, 1, Len(q) - 1) ELSE q

\* opendir(path) != NULL
CanOpen(path) == Normalize(path) \in DOMAIN fs
\* the entries readdir yields for an opened directory, in order
ReadDir(path) == IF CanOpen(path) THEN fs[Normalize(path)] ELSE << >>

(***************************************************************************)
(* find_matching_commands                                                  *)
(***************************************************************************)
str_in_array_Never(str, array) == FALSE
str_in_array(str, array) == \E i \in 1..Len(array) : array[i] = str

\* result.count < 100 is the condition of every loop: the loop ends at
CapReached_Late(count) == count > MATCH_CAP
CapReached(count) == count >= MATCH_CAP

CdPrefix == <<LC_c, LC_d, SP>>

\* d_type != DT_DIR: what the PATH phase and the plain phase ask of an entry
NotDir(e) == ~e.is_dir

\* the match built for a directory entry in the "cd " branch
CdMatch(has_slash, search_dir, name) ==
  IF has_slash
  THEN Snprintf(Len(search_dir) + Len(name) + 2, CdPrefix \o search_dir \o name)
  ELSE Snprintf(Len(name) + 4, CdPrefix \o name)

\* the match built for an entry in the plain branch
PlainMatch(has_slash, search_dir, name) ==
  IF has_slash
  THEN Snprintf(Len(search_dir) + Len(name) + 2, search_dir \o name)
  ELSE name

\* the body of the while loop over the directory the token names, for the
\* entry e: the matches after it
DirStep(e, matches, is_cd, has_slash, search_dir, search_term) ==
  LET skip == e.name = <<DOT>> \/ e.name = <<DOT, DOT>>
      hit == IF is_cd
             THEN e.is_dir /\ StartsWith(e.name, search_term)
             ELSE StartsWith(e.name, search_term) /\ NotDir(e)
      match == IF is_cd THEN CdMatch(has_slash, search_dir, e.name)
               ELSE PlainMatch(has_slash, search_dir, e.name)
  IN  IF ~skip /\ hit /\ ~str_in_array(match, matches)
      THEN Append(matches, match) ELSE matches

\* the while loop over the entries of the directory the token names
RECURSIVE ScanDir(_, _, _, _, _, _)
ScanDir(ents, matches, is_cd, has_slash, search_dir, search_term) ==
  IF ents = << >> \/ CapReached(Len(matches)) THEN matches
  ELSE ScanDir(Tail(ents),
               DirStep(Head(ents), matches, is_cd, has_slash, search_dir,
                       search_term),
               is_cd, has_slash, search_dir, search_term)

\* the body of the inner while loop over one PATH directory, for the entry e
PathStep(e, matches, partial) ==
  IF StartsWith(e.name, partial) /\ NotDir(e) /\ ~str_in_array(e.name, matches)
  THEN Append(matches, e.name) ELSE matches

\* the inner while loop over the entries of one PATH directory
RECURSIVE ScanPathDir(_, _, _)
ScanPathDir(ents, matches, partial) ==
  IF ents = << >> \/ CapReached(Len(matches)) THEN matches
  ELSE ScanPathDir(Tail(ents), PathStep(Head(ents), matches, partial), partial)

\* strtok(path_copy, ":") and its continuation: the non-empty fields of PATH
RECURSIVE StrtokAll(_, _)
StrtokAll(s, delim) ==
  LET at == {i \in 1..Len(s) : s[i] = delim}
  IN  IF s = << >> THEN << >>
      ELSE IF at = {} THEN << s >>
      ELSE LET k == CHOOSE i \in at : \A j \in at : i <= j
           IN  (IF k = 1 THEN << >> ELSE << SubSeq(s, 1, k - 1) >>)
               \o StrtokAll(Drop(s, k), delim)

\* the outer while loop over the directories of PATH; r is [matches, opened]
RECURSIVE ScanPath(_, _, _)
ScanPath(dirs, r, partial) ==
  IF dirs = << >> \/ CapReached(Len(r.matches)) THEN r
  ELSE ScanPath(Tail(dirs),
                [matches |-> ScanPathDir(ReadDir(Head(dirs)), r.matches, partial),
                 opened |-> Append(r.opened, Head(dirs))],
                partial)

\* if (partial_len == 0) return result;
NothingTyped_Never(partial) == FALSE
NothingTyped(partial) == Len(partial) = 0

\* the locals find_matching_commands computes from partial before its loops
IsCd(partial) == StartsWith(partial, CdPrefix)
AfterCd(partial) == IF IsCd(partial) THEN Drop(partial, 3) ELSE partial
LastSlash(partial) == StrRChr(AfterCd(partial), SLASH)
HasLastSlash(partial) == LastSlash(partial) > 0
SearchDir(partial) ==
  IF HasLastSlash(partial) THEN Take(AfterCd(partial), LastSlash(partial))
  ELSE <<DOT>>
SearchTerm(partial) ==
  IF HasLastSlash(partial) THEN Drop(AfterCd(partial), LastSlash(partial))
  ELSE AfterCd(partial)
\* if (!is_cd && !last_slash)
SearchesPath(partial) == ~IsCd(partial) /\ ~HasLastSlash(partial)

\* [matches |-> result.matches[0..count-1], opened |-> the paths given to opendir]
find_matching_commands(partial) ==
  IF NothingTyped(partial) THEN [matches |-> << >>, opened |-> << >>]
  ELSE
    LET local == [matches |-> ScanDir(ReadDir(SearchDir(partial)), << >>,
                                      IsCd(partial), HasLastSlash(partial),
                                      SearchDir(partial), SearchTerm(partial)),
                  opened |-> << SearchDir(partial) >>]
    IN  IF SearchesPath(partial)
        THEN ScanPath(StrtokAll(EnvPATH, COLON), local, partial)
        ELSE local

(***************************************************************************)
(* The terminal: what the bytes lsh_read_line prints do to the column of   *)
(* the visible cursor.  A NUL byte moves nothing; \b and ESC [ 1 D stop at *)
(* column 0.                                                               *)
(***************************************************************************)
Advance(c0, tok) ==
  CASE tok = NL \/ tok = CR -> 0
    [] tok = BS \/ tok = OUT_LEFT -> IF c0 > 0 THEN c0 - 1 ELSE 0
    [] tok = OUT_PROMPT -> c0 + PromptWidth
    [] tok = NUL -> c0
    [] OTHER -> c0 + 1

RECURSIVE TermCol(_, _)
TermCol(c0, out) ==
  IF out = << >> THEN c0 ELSE TermCol(Advance(c0, Head(out)), Tail(out))

Repeat(tok, n) == [i \in 1..n |-> tok]

\* printf("%s", s)
PrintStr(s) == CStr(s)

\* the redraw after an insert: the text from the new byte on, then back
InsertOut(buf, pos, cur) == SubSeq(buf, cur, pos) \o Repeat(BS, pos - cur)

\* the redraw after a Backspace
BackspaceOut(buf, pos, cur) ==
  <<BS>> \o SubSeq(buf, cur + 1, pos) \o <<SP, CR, OUT_PROMPT>>
         \o SubSeq(buf, 1, pos) \o Repeat(BS, pos - cur)

\* the redraw after a single completion was copied into the buffer
TabSingleOut(buf) == <<CR, OUT_PROMPT>> \o PrintStr(buf)

\* stat(path) succeeds and names a directory
is_directory(path) == CanOpen(path)

RECURSIVE ListOut(_, _)
ListOut(matches, str) ==
  IF matches = << >> THEN << >>
  ELSE (IF StartsWith(str, CdPrefix) /\ is_directory(Head(matches))
        THEN Head(matches) \o <<SLASH, SP, SP>>
        ELSE Head(matches) \o <<SP, SP>>)
       \o ListOut(Tail(matches), str)

\* the listing of several completions, then the prompt and the line again
TabMultiOut(matches, str) ==
  <<NL>> \o ListOut(matches, str) \o <<NL, OUT_PROMPT>> \o PrintStr(str)

(***************************************************************************)
(* lsh_read_line                                                           *)
(***************************************************************************)
VARIABLES
  pc,           \* "start", "reading" (at c = getchar()), "esc1" (at seq[0] =
                \* getchar()), "esc2" (at seq[1] = getchar()), "returned", "exited"
  buffer,       \* buffer[0..position-1]
  position,
  cursor_pos,
  bufsize,
  seq,          \* the bytes read after ESC in this iteration
  tty,          \* the terminal's c_lflag
  old_termios,  \* the snapshot tcgetattr stored
  n_enter,      \* calls of tcsetattr that switched to new_termios
  n_restore,    \* calls of tcsetattr that switched back to old_termios
  col,          \* the column of the terminal's visible cursor
  stdin_eof,    \* the input stream has reached end-of-file
  any_byte,     \* a byte has been read in this call
  last_event,   \* the key the last iteration handled
  completions,  \* the argument and the result of the last iteration's completion
  retval,       \* the string returned
  is_tty,       \* standard input is a terminal
  keys,         \* the bytes the user's keyboard sends as text
  sc_pc,        \* one call of find_matching_commands taken entry by entry:
                \* "idle", "begin", "dir" (at the first while), "path" (at the
                \* while over PATH), "pathdir" (at the inner while), "done"
  sc_partial,   \* its argument
  sc_matches,   \* result.matches[0..result.count-1]
  sc_ents,      \* the entries readdir has yet to yield for the open directory
  sc_dirs,      \* the fields of PATH strtok has yet to yield
  sc_skipped,   \* the matches str_in_array has kept out so far
  before_insert \* buffer, position and cursor_pos as the last insertion found
                \* them, when at most one Backspace has followed it; << >> otherwise

vars == << pc, buffer, position, cursor_pos, bufsize, seq, tty, old_termios,
           n_enter, n_restore, col, stdin_eof, any_byte, last_event,
           completions, retval, before_insert, is_tty, keys, big_env,
           sc_pc, sc_partial, sc_matches, sc_ents, sc_dirs, sc_skipped >>

scanvars == << sc_pc, sc_partial, sc_matches, sc_ents, sc_dirs, sc_skipped >>

\* what lsh_read_line finds and never changes
envvars == << is_tty, keys, big_env, scanvars >>

termvars == << tty, old_termios, n_enter, n_restore >>
linevars == << buffer, position, cursor_pos >>

Cooked == {"ICANON", "ECHO", "ISIG"}
\* new_termios.c_lflag &= ~(ICANON | ECHO)
RawOf(lflag) == lflag \ {"ICANON", "ECHO"}

NoCompletion == [partial |-> << >>, matches |-> << >>, opened |-> << >>, called |-> FALSE]

InitCall ==
  /\ pc = "start"
  /\ buffer = << >>
  /\ position = 0
  /\ cursor_pos = 0
  /\ bufsize = 0
  /\ seq = << >>
  /\ tty = Cooked
  /\ old_termios = {}
  /\ n_enter = 0
  /\ n_restore = 0
  /\ col = PromptWidth
  /\ stdin_eof = FALSE
  /\ any_byte = FALSE
  /\ last_event = "none"
  /\ completions = NoCompletion
  /\ retval = << >>
  /\ before_insert = << >>

ScanIdle ==
  /\ sc_pc = "idle"
  /\ sc_partial = << >>
  /\ sc_matches = << >>
  /\ sc_ents = << >>
  /\ sc_dirs = << >>
  /\ sc_skipped = 0

Init == InitCall /\ is_tty = TRUE /\ keys = Alphabet /\ big_env = FALSE /\ ScanIdle

\* tcgetattr(STDIN_FILENO, &old_termios) on a descriptor that is no terminal
\* fails and stores nothing: old_termios keeps the indeterminate bytes of the
\* stack
Indeterminate == {{}, Cooked}

\* the allocation of the buffer, and the switch to raw mode; the results of
\* tcgetattr and tcsetattr are not looked at
Start ==
  /\ pc = "start"
  /\ \E ok \in BOOLEAN :
       IF ok
       THEN /\ pc' = "reading"
            /\ bufsize' = LSH_RL_BUFSIZE
            /\ IF is_tty
               THEN /\ old_termios' = tty
                    /\ tty' = RawOf(tty)
                    /\ n_enter' = n_enter + 1
               ELSE /\ old_termios' \in Indeterminate
                    /\ UNCHANGED << tty, n_enter >>
       ELSE /\ pc' = "exited"
            /\ UNCHANGED << bufsize, old_termios, tty, n_enter >>
  /\ UNCHANGED << linevars, seq, n_restore, col, stdin_eof, any_byte,
                  last_event, completions, retval, before_insert,
                  envvars >>

\* if (position >= bufsize) { bufsize += LSH_RL_BUFSIZE; realloc or exit }
ExitOnAllocFailure == "exited"

BufferFull_Late(pos, size) == pos > size
BufferFull(pos, size) == pos >= size

AfterIteration(pos) ==
  IF BufferFull(pos, bufsize)
  THEN /\ bufsize' = bufsize + LSH_RL_BUFSIZE
       /\ \E ok \in BOOLEAN :
            /\ pc' = IF ok THEN "reading" ELSE ExitOnAllocFailure
            /\ UNCHANGED termvars
  ELSE /\ bufsize' = bufsize
       /\ pc' = "reading"
       /\ UNCHANGED termvars

\* what lsh_read_line returns for the buffer: a char* to its bytes up to the NUL
ReturnValue(buf) == CStr(buf)

\* c == EOF || c == '\n'
Return(event) ==
  /\ retval' = ReturnValue(buffer)
  /\ IF is_tty
     THEN /\ tty' = old_termios
          /\ n_restore' = n_restore + 1
     ELSE UNCHANGED << tty, n_restore >>
  /\ col' = TermCol(col, <<NL>>)
  /\ pc' = "returned"
  /\ last_event' = event
  /\ completions' = NoCompletion
  /\ seq' = << >>
  /\ before_insert' = << >>
  /\ UNCHANGED << linevars, bufsize, old_termios, n_enter, envvars >>

ReadEOF ==
  /\ pc = "reading"
  /\ stdin_eof' = TRUE
  /\ UNCHANGED any_byte
  /\ Return("eof")

ReadNewline ==
  /\ pc = "reading"
  /\ ~stdin_eof
  /\ any_byte' = TRUE
  /\ UNCHANGED stdin_eof
  /\ Return("enter")

\* c == 127, cursor_pos > 0
CanDelete_NotFirst(cur) == cur > 1
CanDelete(cur) == cur > 0

ReadBackspace ==
  /\ pc = "reading"
  /\ ~stdin_eof
  /\ IF CanDelete(cursor_pos)
     THEN /\ buffer' = SubSeq(buffer, 1, cursor_pos - 1)
                         \o SubSeq(buffer, cursor_pos + 1, position)
          /\ position' = position - 1
          /\ cursor_pos' = cursor_pos - 1
          /\ col' = TermCol(col, BackspaceOut(buffer', position', cursor_pos'))
     ELSE UNCHANGED << linevars, col >>
  /\ AfterIteration(position')
  /\ any_byte' = TRUE
  /\ last_event' = "backspace"
  /\ completions' = NoCompletion
  /\ seq' = << >>
  /\ before_insert' = IF last_event = "insert" THEN before_insert ELSE << >>
  /\ UNCHANGED << stdin_eof, retval, envvars >>

\* c == 27: the branch goes on to read seq[0]
ReadEsc ==
  /\ pc = "reading"
  /\ ~stdin_eof
  /\ pc' = "esc1"
  /\ any_byte' = TRUE
  /\ last_event' = "esc"
  /\ completions' = NoCompletion
  /\ seq' = << >>
  /\ before_insert' = << >>
  /\ UNCHANGED << linevars, bufsize, termvars, col, stdin_eof, retval, envvars >>

\* the byte getchar() yields: any of the set, or EOF once the stream has ended
Arrives(b, set) == IF stdin_eof THEN b = EOF ELSE b \in set \cup {EOF}

\* seq[0] == '['
IsBracket_OrEsc(b) == b = LBRACKET \/ b = ESC
IsBracket(b) == b = LBRACKET

ReadEscStart(b) ==
  /\ pc = "esc1"
  /\ Arrives(b, EscBytes)
  /\ seq' = << b >>
  /\ stdin_eof' = (b = EOF)
  /\ IF IsBracket(b)
     THEN /\ pc' = "esc2"
          /\ UNCHANGED << bufsize, termvars, last_event >>
     ELSE /\ AfterIteration(position)
          /\ last_event' = "discard"
  /\ UNCHANGED << linevars, col, any_byte, completions, retval, before_insert,
                  envvars >>

\* cursor_pos < position, cursor_pos > 0
CanMoveRight_OffByOne(cur, pos) == cur <= pos
CanMoveRight(cur, pos) == cur < pos
CanMoveLeft_AtZero(cur) == cur >= 0
CanMoveLeft(cur) == cur > 0

ReadEscBracket(b) ==
  /\ pc = "esc2"
  /\ Arrives(b, EscBytes)
  /\ seq' = << LBRACKET, b >>
  /\ stdin_eof' = (b = EOF)
  /\ CASE b = CH_C ->
            /\ last_event' = "right"
            /\ IF CanMoveRight(cursor_pos, position)
               THEN /\ cursor_pos' = cursor_pos + 1
                    /\ col' = TermCol(col, <<OUT_RIGHT>>)
               ELSE UNCHANGED << cursor_pos, col >>
       [] b = CH_D ->
            /\ last_event' = "left"
            /\ IF CanMoveLeft(cursor_pos)
               THEN /\ cursor_pos' = cursor_pos - 1
                    /\ col' = TermCol(col, <<OUT_LEFT>>)
               ELSE UNCHANGED << cursor_pos, col >>
       [] OTHER ->
            /\ last_event' = "discard"
            /\ UNCHANGED << cursor_pos, col >>
  /\ AfterIteration(position)
  /\ UNCHANGED << buffer, position, any_byte, completions, retval, before_insert,
                  envvars >>

\* completions.count == 1
SingleMatch_OrMore(count) == count >= 1
SingleMatch(count) == count = 1

\* c == '\t'
ReadTab ==
  /\ pc = "reading"
  /\ ~stdin_eof
  /\ LET str == CStr(buffer)      \* buffer[position] = '\0'
         r == find_matching_commands(str)
     IN  /\ completions' = [partial |-> str, matches |-> r.matches,
                            opened |-> r.opened, called |-> TRUE]
         /\ IF SingleMatch(Len(r.matches))
            THEN /\ buffer' = Strncpy(r.matches[1], bufsize - 1)
                 /\ position' = Len(buffer')
                 /\ cursor_pos' = position'
                 /\ col' = TermCol(col, TabSingleOut(buffer'))
            ELSE IF Len(r.matches) > 1
            THEN /\ col' = TermCol(col, TabMultiOut(r.matches, str))
                 /\ UNCHANGED linevars
            ELSE UNCHANGED << linevars, col >>
  /\ AfterIteration(position')
  /\ any_byte' = TRUE
  /\ last_event' = "tab"
  /\ seq' = << >>
  /\ before_insert' = << >>
  /\ UNCHANGED << stdin_eof, retval, envvars >>

\* any other byte: insert it at the cursor
ReadChar(c) ==
  /\ pc = "reading"
  /\ ~stdin_eof
  /\ c \in keys
  /\ position < MaxLine
  /\ buffer' = SubSeq(buffer, 1, cursor_pos) \o << c >>
                 \o SubSeq(buffer, cursor_pos + 1, position)
  /\ position' = position + 1
  /\ cursor_pos' = cursor_pos + 1
  /\ col' = TermCol(col, InsertOut(buffer', position', cursor_pos'))
  /\ AfterIteration(position')
  /\ any_byte' = TRUE
  /\ last_event' = "insert"
  /\ completions' = NoCompletion
  /\ seq' = << >>
  /\ before_insert' = linevars
  /\ UNCHANGED << stdin_eof, retval, envvars >>

Next ==
  \/ Start
  \/ ReadEOF
  \/ ReadNewline
  \/ ReadBackspace
  \/ ReadEsc
  \/ \E b \in EscBytes \cup {EOF} : ReadEscStart(b)
  \/ \E b \in EscBytes \cup {EOF} : ReadEscBracket(b)
  \/ ReadTab
  \/ \E c \in Alphabet \cup ExitKeys : ReadChar(c)

Spec == Init /\ [][Next]_vars

\* the same call with standard input that is no terminal (a pipe, a file)
InitNoTty ==
  InitCall /\ is_tty = FALSE /\ keys = Alphabet /\ big_env = FALSE /\ ScanIdle

NoTtySpec == InitNoTty /\ [][Next]_vars

(***************************************************************************)
(* lsh_loop: prompt, lsh_read_line, lsh_split_line, lsh_execute, until     *)
(* lsh_execute returns 0.                                                  *)
(***************************************************************************)
\* LSH_TOK_DELIM " \t\r\n\a"
LSH_TOK_DELIM == {SP, TAB, CR, NL, BEL}

\* strtok(line, LSH_TOK_DELIM) and its continuation: the tokens of the line
RECURSIVE lsh_split_line(_)
lsh_split_line(line) ==
  LET at == {i \in 1..Len(line) : line[i] \in LSH_TOK_DELIM}
  IN  IF line = << >> THEN << >>
      ELSE IF at = {} THEN << line >>
      ELSE LET k == CHOOSE i \in at : \A j \in at : i <= j
           IN  (IF k = 1 THEN << >> ELSE << SubSeq(line, 1, k - 1) >>)
               \o lsh_split_line(Drop(line, k))

builtin_str == << <<LC_c, LC_d>>, <<LC_h, LC_e, LC_l, LC_p>>,
                 <<LC_e, LC_x, LC_i, LC_t>> >>

\* what the builtins return: lsh_cd and lsh_help 1, lsh_exit 0
builtin_func == << 1, 1, 0 >>

\* fork, execvp in the child, waitpid in the parent: always returns 1
lsh_launch == 1

\* the status of a command: 0 ends the loop
lsh_execute(args) ==
  IF args = << >> THEN 1
  ELSE IF \E i \in 1..Len(builtin_str) : args[1] = builtin_str[i]
       THEN builtin_func[CHOOSE i \in 1..Len(builtin_str) : args[1] = builtin_str[i]]
       ELSE lsh_launch

\* one turn of the do-while after lsh_read_line has returned: split (malloc
\* or exit), execute, free, and either the next prompt and call or the end
LoopIteration ==
  /\ pc = "returned"
  /\ \E ok \in BOOLEAN :
       IF ~ok
       THEN /\ pc' = "exited"
            /\ UNCHANGED << linevars, bufsize, seq, termvars, col, any_byte,
                            last_event, completions, retval, before_insert >>
       ELSE IF lsh_execute(lsh_split_line(retval)) # 0
       THEN /\ pc' = "start"
            /\ buffer' = << >>
            /\ position' = 0
            /\ cursor_pos' = 0
            /\ bufsize' = 0
            /\ seq' = << >>
            /\ old_termios' = {}
            /\ n_enter' = 0
            /\ n_restore' = 0
            /\ col' = PromptWidth
            /\ any_byte' = FALSE
            /\ last_event' = "none"
            /\ completions' = NoCompletion
            /\ retval' = << >>
            /\ before_insert' = << >>
            /\ UNCHANGED tty
       ELSE /\ pc' = "done"
            /\ UNCHANGED << linevars, bufsize, seq, termvars, col, any_byte,
                            last_event, completions, retval, before_insert >>
  /\ UNCHANGED << stdin_eof, envvars >>

LoopNext == Next \/ LoopIteration

InitLoop ==
  InitCall /\ is_tty = TRUE /\ keys = ExitKeys /\ big_env = FALSE /\ ScanIdle

\* the process is scheduled: a step that waits for no input is taken, and
\* once the input has ended getchar() returns at once
LoopFairness ==
  /\ WF_vars(Start)
  /\ WF_vars(LoopIteration)
  /\ WF_vars(stdin_eof /\ Next)

LoopSpec == InitLoop /\ [][LoopNext]_vars /\ LoopFairness

(***************************************************************************)
(* One call of find_matching_commands, a step for each evaluation of a     *)
(* loop condition: the states between two entries are states of the call.  *)
(***************************************************************************)
callvars == << pc, linevars, bufsize, seq, termvars, col, stdin_eof, any_byte,
               last_event, completions, retval, before_insert, is_tty, keys, big_env >>

\* the strings a caller may pass: no NUL inside
Partials == UNION { [1..n -> Alphabet \ {NUL}] : n \in 0..MaxLine }

InitScan ==
  /\ InitCall /\ is_tty = TRUE /\ keys = Alphabet
  /\ big_env \in BOOLEAN
  /\ sc_pc = "begin"
  /\ sc_partial \in Partials
  /\ sc_matches = << >>
  /\ sc_ents = << >>
  /\ sc_dirs = << >>
  /\ sc_skipped = 0

\* from the entry of the function to the first while: the early return, or
\* opendir of the directory the token names
ScanBegin ==
  /\ sc_pc = "begin"
  /\ IF NothingTyped(sc_partial)
     THEN /\ sc_pc' = "done"
          /\ UNCHANGED sc_ents
     ELSE /\ sc_pc' = "dir"
          /\ sc_ents' = ReadDir(SearchDir(sc_partial))
  /\ UNCHANGED << sc_partial, sc_matches, sc_dirs, sc_skipped, callvars >>

\* the entries of ents that the step kept out as already present
Skipped(before, after, wanted) ==
  IF wanted /\ after = before THEN 1 ELSE 0

\* while ((entry = readdir(dir)) && result.count < 100): one entry, or the
\* end of the loop, closedir, and strtok(path_copy, ":") or the return
ScanDirEntry ==
  /\ sc_pc = "dir"
  /\ IF sc_ents = << >> \/ CapReached(Len(sc_matches))
     THEN /\ sc_ents' = << >>
          /\ IF SearchesPath(sc_partial)
             THEN /\ sc_pc' = "path"
                  /\ sc_dirs' = StrtokAll(EnvPATH, COLON)
             ELSE /\ sc_pc' = "done"
                  /\ UNCHANGED sc_dirs
          /\ UNCHANGED << sc_matches, sc_skipped >>
     ELSE /\ sc_matches' = DirStep(Head(sc_ents), sc_matches, IsCd(sc_partial),
                                   HasLastSlash(sc_partial),
                                   SearchDir(sc_partial), SearchTerm(sc_partial))
          /\ sc_skipped' = sc_skipped +
               Skipped(sc_matches, sc_matches',
                       DirStep(Head(sc_ents), << >>, IsCd(sc_partial),
                               HasLastSlash(sc_partial), SearchDir(sc_partial),
                               SearchTerm(sc_partial)) # << >>)
          /\ sc_ents' = Tail(sc_ents)
          /\ UNCHANGED << sc_pc, sc_dirs >>
  /\ UNCHANGED << sc_partial, callvars >>

\* while (dir_path != NULL && result.count < 100): opendir of the next field
\* of PATH, or the return
ScanPathOpen ==
  /\ sc_pc = "path"
  /\ IF sc_dirs = << >> \/ CapReached(Len(sc_matches))
     THEN /\ sc_pc' = "done"
          /\ UNCHANGED << sc_ents, sc_dirs >>
     ELSE /\ sc_pc' = "pathdir"
          /\ sc_ents' = ReadDir(Head(sc_dirs))
          /\ sc_dirs' = Tail(sc_dirs)
  /\ UNCHANGED << sc_partial, sc_matches, sc_skipped, callvars >>

\* the inner while: one entry of the PATH directory, or closedir and
\* strtok(NULL, ":")
ScanPathEntry ==
  /\ sc_pc = "pathdir"
  /\ IF sc_ents = << >> \/ CapReached(Len(sc_matches))
     THEN /\ sc_pc' = "path"
          /\ sc_ents' = << >>
          /\ UNCHANGED << sc_matches, sc_skipped >>
     ELSE /\ sc_matches' = PathStep(Head(sc_ents), sc_matches, sc_partial)
          /\ sc_skipped' = sc_skipped +
               Skipped(sc_matches, sc_matches',
                       PathStep(Head(sc_ents), << >>, sc_partial) # << >>)
          /\ sc_ents' = Tail(sc_ents)
          /\ UNCHANGED sc_pc
  /\ UNCHANGED << sc_partial, sc_dirs, callvars >>

ScanNext == ScanBegin \/ ScanDirEntry \/ ScanPathOpen \/ ScanPathEntry

ScanSpec == InitScan /\ [][ScanNext]_vars

\* the steps add up to the function the line editor calls
ScanAgrees ==
  sc_pc = "done" => sc_matches = find_matching_commands(sc_partial).matches

(***************************************************************************)
(* The words of the specification that the code has no name for: the token *)
(* being completed (the text after the last whitespace), the text before   *)
(* it, and the token's role.                                               *)
(***************************************************************************)
IsSpace(b) == b \in {SP, TAB, NL, CR}
LastSpace(s) ==
  LET at == {i \in 1..Len(s) : IsSpace(s[i])}
  IN  IF at = {} THEN 0 ELSE CHOOSE i \in at : \A j \in at : j <= i
Token(s) == Drop(s, LastSpace(s))
BeforeToken(s) == Take(s, LastSpace(s))
\* the token is the first word of the line
IsCommandRole(s) == \A i \in 1..LastSpace(s) : IsSpace(s[i])
HasSlash(s) == \E i \in 1..Len(s) : s[i] = SLASH
NoDuplicates(q) == \A i, j \in 1..Len(q) : q[i] = q[j] => i = j
Elements(q) == {q[i] : i \in 1..Len(q)}
\* the step of the read loop that handled a Tab
TabStep == pc = "reading" /\ last_event' = "tab" /\ completions'.called
Exits == {"returned", "exited"}

(***************************************************************************)
(* C1: on every exit path of one lsh_read_line call that entered raw mode  *)
(* (Enter, EOF, a fatal allocation failure while growing the buffer) the   *)
(* terminal mode has been restored to the snapshot exactly once.           *)
(***************************************************************************)
C1_RestoredOnEveryExit ==
  (pc \in Exits /\ n_enter = 1) => (n_restore = 1 /\ tty = old_termios)

(***************************************************************************)
(* C2: after every key event 0 <= cursor_pos <= position <= bufsize.       *)
(***************************************************************************)
C2_CursorWithinLength ==
  /\ 0 <= cursor_pos
  /\ cursor_pos <= position
  /\ position <= bufsize

\* an insert in the middle of the line that made the buffer grow
C2_Witness ==
  /\ pc = "reading"
  /\ last_event = "insert"
  /\ bufsize > LSH_RL_BUFSIZE
  /\ 0 < cursor_pos
  /\ cursor_pos < position

(***************************************************************************)
(* C3: a read whose input is closed before any byte arrives returns an     *)
(* outcome the caller can tell from the one returned for Enter on an empty *)
(* buffer.                                                                 *)
(***************************************************************************)
C3_EofDistinctFromEmptyLine ==
  (pc = "returned" /\ last_event = "eof" /\ ~any_byte)
    => retval # ReturnValue(<< >>)

(***************************************************************************)
(* C4: after every key event on a line of printable bytes the terminal's   *)
(* visible cursor column, measured from the end of the prompt, equals      *)
(* cursor_pos.                                                             *)
(***************************************************************************)
C4_VisibleCursorIsCursorPos ==
  (pc \in {"reading", "esc1", "esc2"} /\ \A i \in 1..Len(buffer) : buffer[i] # NUL)
    => col - PromptWidth = cursor_pos

(***************************************************************************)
(* C5: the byte after ESC is consumed and, unless it is '[', discarded;    *)
(* the byte after ESC '[' is consumed and, unless it is 'C' or 'D',        *)
(* discarded.  Consuming ESC, '[' or a discarded byte changes neither the  *)
(* buffer nor the length nor the cursor and does not end the read, and     *)
(* after a discarded byte the loop is back at its normal read.             *)
(***************************************************************************)
C5_EscapeDiscards ==
  [][ /\ (pc = "reading" /\ pc' = "esc1") => UNCHANGED linevars
      /\ pc = "esc1" =>
           /\ UNCHANGED linevars
           /\ pc' = IF seq'[1] = LBRACKET THEN "esc2" ELSE "reading"
      /\ pc = "esc2" =>
           /\ pc' = "reading"
           /\ UNCHANGED << buffer, position >>
           /\ seq'[2] \notin {CH_C, CH_D} => UNCHANGED cursor_pos ]_vars

\* Enter after ESC '[' was discarded on a line that is not empty
C5_Witness ==
  /\ pc = "reading"
  /\ last_event = "discard"
  /\ seq = << LBRACKET, NL >>
  /\ cursor_pos > 0

(***************************************************************************)
(* C6: the live buffer content holds no NUL, so that position is the       *)
(* number of characters of the line that is returned.                      *)
(***************************************************************************)
C6_NoNulInBuffer ==
  /\ \A i \in 1..Len(buffer) : buffer[i] # NUL
  /\ pc = "returned" => position = Len(retval)

(***************************************************************************)
(* C7: a Tab with exactly one candidate replaces the token by that         *)
(* candidate: the line becomes the candidate, the text before the token is *)
(* unchanged, and the cursor is at the new length.                         *)
(***************************************************************************)
C7_SingleMatchReplacesToken ==
  [][ (TabStep /\ Len(completions'.matches) = 1) =>
        /\ buffer' = completions'.matches[1]
        /\ BeforeToken(buffer') = BeforeToken(buffer)
        /\ position' = Len(buffer')
        /\ cursor_pos' = position' ]_vars

PathExecutables(tok) ==
  LET dirs == StrtokAll(EnvPATH, COLON)
  IN  UNION { { e.name : e \in { x \in Elements(ReadDir(dirs[k])) :
                                   x.exec /\ StartsWith(x.name, tok) } } :
              k \in 1..Len(dirs) }

C9_CommandCandidatesFromPath ==
  (/\ completions.called
   /\ IsCommandRole(completions.partial)
   /\ Token(completions.partial) # << >>
   /\ ~HasSlash(Token(completions.partial)))
    => /\ NoDuplicates(completions.matches)
       /\ Elements(completions.matches) = PathExecutables(Token(completions.partial))

(***************************************************************************)
(* C10: for an Argument-role token the candidates are exactly the entries  *)
(* of the implied directory (the token's directory prefix, or the current  *)
(* directory) whose names start with the token's basename, regular files   *)
(* and directories alike, without duplicates.  A candidate stands for an   *)
(* entry when it is the directory prefix as typed followed by the entry's  *)
(* name, with or without a trailing separator and with or without the text *)
(* before the token.                                                       *)
(***************************************************************************)
TokenDir(tok) == Take(tok, StrRChr(tok, SLASH))
TokenBase(tok) == Drop(tok, StrRChr(tok, SLASH))
ImpliedEntries(tok) ==
  LET ents == ReadDir(IF HasSlash(tok) THEN TokenDir(tok) ELSE <<DOT>>)
  IN  { ents[i].name : i \in { j \in 1..Len(ents) :
                                 /\ ents[j].name \notin {<<DOT>>, <<DOT, DOT>>}
                                 /\ StartsWith(ents[j].name, TokenBase(tok)) } }
StandsFor(m, line, name) ==
  LET full == TokenDir(Token(line)) \o name
  IN  m \in { full, full \o <<SLASH>>,
              BeforeToken(line) \o full, BeforeToken(line) \o full \o <<SLASH>> }

C10_ArgumentCandidatesFromDirectory ==
  (/\ completions.called
   /\ ~IsCommandRole(completions.partial)
   /\ Token(completions.partial) # << >>)
    => LET line == completions.partial
           want == ImpliedEntries(Token(line))
       IN  /\ NoDuplicates(completions.matches)
           /\ \A n \in want : \E m \in Elements(completions.matches) : StandsFor(m, line, n)
           /\ \A m \in Elements(completions.matches) : \E n \in want : StandsFor(m, line, n)

(***************************************************************************)
(* C11: when the token has a directory prefix, every candidate is that     *)
(* prefix as typed followed by the complete name of a matching entry of    *)
(* the directory (after the text before the token, if the candidate        *)
(* carries it).                                                            *)
(***************************************************************************)
C11_CandidateKeepsPrefixAndName ==
  (completions.called /\ HasSlash(Token(completions.partial)))
    => \A m \in Elements(completions.matches) :
         \E n \in ImpliedEntries(Token(completions.partial)) :
           StandsFor(m, completions.partial, n)

(***************************************************************************)
(* C12: every candidate that names a directory ends with a path separator. *)
(***************************************************************************)
ImpliedDirectories(tok) ==
  LET ents == ReadDir(IF HasSlash(tok) THEN TokenDir(tok) ELSE <<DOT>>)
  IN  { ents[i].name : i \in { j \in 1..Len(ents) :
                                 /\ ents[j].is_dir
                                 /\ ents[j].name \notin {<<DOT>>, <<DOT, DOT>>}
                                 /\ StartsWith(ents[j].name, TokenBase(tok)) } }

C12_DirectoryCandidatesEndWithSlash ==
  completions.called
    => \A m \in Elements(completions.matches) :
         (\E n \in ImpliedDirectories(Token(completions.partial)) :
            StandsFor(m, completions.partial, n))
           => m[Len(m)] = SLASH

(***************************************************************************)
(* C16: ArrowLeft with the cursor at 0 and ArrowRight with the cursor at   *)
(* the length change neither the buffer nor the length nor the cursor, and *)
(* print no cursor movement: the terminal's column stays where it is (on  *)
(* a line of printable bytes the column is not left of the prompt's end,   *)
(* so that a printed ESC [ 1 D would move it).                             *)
(***************************************************************************)
Printable(buf) == \A i \in 1..Len(buf) : buf[i] # NUL

C16_ArrowAtBoundaryIsNoOp ==
  [][ (pc = "esc2" /\ (\/ last_event' = "left" /\ cursor_pos = 0
                       \/ last_event' = "right" /\ cursor_pos = position))
        => /\ UNCHANGED linevars
           /\ col' = col
           /\ Printable(buffer) => col >= PromptWidth ]_vars

\* ArrowRight at the end of a line that is not empty, twice
C16_Witness ==
  /\ pc = "reading"
  /\ last_event = "right"
  /\ seq = << LBRACKET, CH_C >>
  /\ position > 0
  /\ cursor_pos = position

(***************************************************************************)
(* C18: a Tab with no candidate or with several leaves the buffer, the     *)
(* length and the cursor as they were.                                     *)
(***************************************************************************)
C18_TabWithoutSingleMatchKeepsLine ==
  [][ (TabStep /\ Len(completions'.matches) # 1) => UNCHANGED linevars ]_vars

\* several candidates were listed while the cursor was inside the line
C18_Witness ==
  /\ pc = "reading"
  /\ last_event = "tab"
  /\ Len(completions.matches) > 1
  /\ cursor_pos < position

(***************************************************************************)
(* C20: at the start of every iteration of the read loop position is less  *)
(* than bufsize, so the NUL written at buffer[position], the shift of an   *)
(* insert up to buffer[position] and the bounded copy of a candidate stay  *)
(* inside the bufsize bytes.                                               *)
(***************************************************************************)
C20_PositionBelowBufsize ==
  pc \in {"reading", "esc1", "esc2"}
    => (position < bufsize /\ Len(buffer) = position)

\* a candidate longer than the buffer was copied, cut to bufsize - 1 bytes
C20_Witness ==
  /\ pc = "reading"
  /\ last_event = "tab"
  /\ Len(completions.matches) = 1
  /\ Len(completions.matches[1]) > bufsize - 1
  /\ position = bufsize - 1

(***************************************************************************)
(* C15.  A byte inserted at the cursor and then removed by Backspace       *)
(* leaves the line as it was.                                              *)
(***************************************************************************)
InsertedThenBackspace ==
  pc = "reading" /\ last_event = "backspace" /\ before_insert # << >>

\* C15: for every buffer content, every cursor position and every inserted
\* character, the Backspace that follows the insertion restores the buffer
\* content, the length and the cursor to their values before the insertion.
C15_InsertBackspaceRoundTrip ==
  InsertedThenBackspace => linevars = before_insert

\* a printable character was inserted in the middle of a line of printable
\* characters, and Backspace has removed it
C15_Witness ==
  /\ InsertedThenBackspace
  /\ position >= 2
  /\ 0 < cursor_pos /\ cursor_pos < position
  /\ Printable(buffer)

(***************************************************************************)
(* C17.  A call that cannot query or set the terminal mode.                *)
(***************************************************************************)
\* C17: when standard input is no terminal, the call ends at once: it never
\* stands at a getchar(), reads no byte, edits nothing and returns no line.
C17_TerminalFailureSurfaced ==
  ~is_tty => /\ pc \in {"start", "exited"}
             /\ ~any_byte
             /\ linevars = << << >>, 0, 0 >>

(***************************************************************************)
(* C19.  The main loop after the end of the input.                         *)
(***************************************************************************)
Ended == pc \in {"done", "exited"}

\* C19: once the input stream has reached end-of-file, the main loop
\* eventually terminates.
C19_LoopEndsAfterEof == stdin_eof ~> Ended

(***************************************************************************)
(* C13, C14.  The candidate list during a completion call.                 *)
(***************************************************************************)
IsPrefix(s, t) == Len(s) <= Len(t) /\ SubSeq(t, 1, Len(s)) = s

\* C13: at every point of a completion call no two candidates are equal, and
\* every step keeps the candidates it found in their places: a step adds at
\* the end or adds nothing.
C13_NoDuplicatesInDiscoveryOrder ==
  [][ NoDuplicates(sc_matches') /\ IsPrefix(sc_matches, sc_matches') ]_vars

\* the call has met again, in PATH, candidates it had: they were kept out
C13_Witness ==
  /\ sc_pc = "done"
  /\ sc_skipped > 1
  /\ Len(sc_matches) > 1
  /\ SearchesPath(sc_partial)

\* C14: in every state of a completion call at most 100 candidates are
\* collected, the directory phase and the PATH phase taken together.
C14_AtMostHundredCandidates == Len(sc_matches) <= MATCH_CAP

\* the 100th candidate was stored in the PATH phase, after candidates of the
\* directory phase, with matching entries still to come
C14_Witness ==
  /\ sc_pc = "pathdir"
  /\ Len(sc_matches) = MATCH_CAP
  /\ \E i \in 1..Len(sc_ents) :
       PathStep(sc_ents[i], sc_matches, sc_partial) # sc_matches
  /\ ScanDir(ReadDir(<<DOT>>), << >>, FALSE, FALSE, <<DOT>>, sc_partial) # << >>

====
